---- MODULE Spec2Model ----
(***************************************************************************)
(* Model of the app-distribution-server request handlers                   *)
(* (routers/api_router.py, app.py) over the content store and tag index    *)
(* they call (app_distribution_server.storage / .build_info).              *)
(*                                                                         *)
(* Every request is handled by an independent worker; a handler that makes *)
(* several storage calls is several steps, so requests interleave between  *)
(* storage calls.                                                          *)
(***************************************************************************)
EXTENDS Integers, Sequences, FiniteSets, TLC

----------------------------------------------------------------------------
(* Bounds *)

\* get_build_info stamps created_at from the clock; at most MaxClock stamps.
MaxClock == 3
\* Longest requested tag list of an upload.
MaxTags == 2
\* The same two bounds where two workers run concurrently.
ConcClock == 2
ConcTags == 1
\* Most routes of a router when add_head_routes is called on it.
MaxRoutes == 3

Workers == {"w1", "w2"}

----------------------------------------------------------------------------
(* Strings: a string is a sequence of characters, SP is whitespace *)

SP == " "

\* Raw tag names a client may send.
RawNames == {<<"a">>, <<"b">>, <<"c">>, <<SP, "a">>, <<SP>>}
SmallNames == {<<"a">>, <<"b">>, <<SP, "a">>, <<SP>>}

RECURSIVE LStrip(_)
LStrip(s) ==
    IF s = <<>> THEN s
    ELSE IF Head(s) = SP THEN LStrip(Tail(s)) ELSE s

RECURSIVE RStrip(_)
RStrip(s) ==
    IF s = <<>> THEN s
    ELSE IF s[Len(s)] = SP THEN RStrip(SubSeq(s, 1, Len(s) - 1)) ELSE s

\* str.strip()
Strip(s) == RStrip(LStrip(s))

\* Python truthiness of a string
Truthy(s) == s # <<>>

\* [f(x) for x in seq]
RECURSIVE MapStrip(_)
MapStrip(seq) ==
    IF seq = <<>> THEN <<>> ELSE <<Strip(Head(seq))>> \o MapStrip(Tail(seq))

\* valid_tags = [t.strip() for t in tags if t.strip()]
StripTags(rawTags) == SelectSeq(MapStrip(rawTags), Truthy)

\* invalid_tags = [t for t in valid_tags if t not in all_tags]
InvalidTags(validTags, allTags) ==
    LET NotIn(t) == t \notin allTags IN SelectSeq(validTags, NotIn)

SeqsUpTo(S, n) == UNION {[1..k -> S] : k \in 0..n}

\* The tags form field: absent (None) or a list of raw names.
NoTags == [present |-> FALSE, list |-> <<>>]
RawTagLists(names, n) ==
    {[present |-> TRUE, list |-> l] : l \in SeqsUpTo(names, n)} \cup {NoTags}

\* The new_tag query parameter: absent (None) or a raw name.
NoNewTag == [present |-> FALSE, name |-> <<>>]
RawNewTags == {[present |-> TRUE, name |-> n] : n \in RawNames} \cup {NoNewTag}

Range(f) == {f[x] : x \in DOMAIN f}

----------------------------------------------------------------------------
(* File names: a sequence of tokens, "." is the dot *)

IpaName == <<"app", ".", "ipa">>
HiddenIpaName == <<".", "ipa">>
ApkName == <<"app", ".", "apk">>
TxtName == <<"notes", ".", "txt">>
NoName == <<"<None>">>
FileNames == {IpaName, ApkName, TxtName, NoName}

\* str.endswith("." + ext)
EndsWithExt(name, ext) ==
    /\ Len(name) >= 2
    /\ name[Len(name) - 1] = "."
    /\ name[Len(name)] = ext

\* _upload_app: platform from the file name's extension
PlatformOf(name) ==
    IF name = NoName THEN "InvalidFileTypeError"
    ELSE IF EndsWithExt(name, "ipa") THEN "ios"
    ELSE IF EndsWithExt(name, "apk") THEN "android"
    ELSE "InvalidFileTypeError"

----------------------------------------------------------------------------
(* Uploaded bytes and metadata extraction (build_info.get_build_info) *)

\* The byte strings a client may upload, by number.
Contents == 1..5

\* What each byte string holds.
Archive(c) ==
    CASE c = 1 -> [kind |-> "ios", bundle_id |-> "com.a", bundle_version |-> "2.0"]
      [] c = 2 -> [kind |-> "ios", bundle_id |-> "com.a", bundle_version |-> "1.0"]
      [] c = 3 -> [kind |-> "android", bundle_id |-> "com.b", bundle_version |-> "1.0"]
      [] c = 4 -> [kind |-> "junk", bundle_id |-> "", bundle_version |-> ""]
      [] OTHER -> [kind |-> "ios", bundle_id |-> "", bundle_version |-> "1.0"]

BundleIds == {"com.a", "com.b", "com.none"}

\* upload_id: content hash of the raw bytes (stable digest)
UploadId(c) == 100 + ((c * 7) % 11)

UploadIds == {UploadId(c) : c \in Contents}

\* Variant: upload_id is a fresh token of each ingestion, not a content hash.
GetBuildInfoFreshId(platform, c, now) ==
    LET a == Archive(c) IN
    IF a.kind # platform THEN [err |-> "MalformedArchive", info |-> <<>>]
    ELSE IF a.bundle_id = "" \/ a.bundle_version = ""
    THEN [err |-> "MissingIdentityFields", info |-> <<>>]
    ELSE [err |-> "none",
          info |-> <<[upload_id |-> 200 + now,
                      platform |-> platform,
                      bundle_id |-> a.bundle_id,
                      bundle_version |-> a.bundle_version,
                      created_at |-> now,
                      tags |-> <<>>]>>]

\* get_build_info(platform, content) at time now
GetBuildInfo(platform, c, now) ==
    LET a == Archive(c) IN
    IF a.kind # platform THEN [err |-> "MalformedArchive", info |-> <<>>]
    ELSE IF a.bundle_id = "" \/ a.bundle_version = ""
    THEN [err |-> "MissingIdentityFields", info |-> <<>>]
    ELSE [err |-> "none",
          info |-> <<[upload_id |-> UploadId(c),
                      platform |-> platform,
                      bundle_id |-> a.bundle_id,
                      bundle_version |-> a.bundle_version,
                      created_at |-> now,
                      tags |-> <<>>]>>]

----------------------------------------------------------------------------
(* Content store and tag index (app_distribution_server.storage) *)

MetaName == <<"build_info", ".", "json">>

\* A directory under construction: artifact written, metadata not yet.
ArtifactDir(name, c) == [files |-> {name}, bytes |-> <<c>>, info |-> <<>>]

\* The directory with its metadata side-file written.
WithInfo(dir, info) ==
    [dir EXCEPT !.files = @ \cup {MetaName}, !.info = <<info>>]

\* A directory is complete when artifact and metadata are both present.
Complete(dir) == dir.bytes # <<>> /\ dir.info # <<>>

\* load_build_info(upload_id): <<info>>, or <<>> for NotFound
LoadBuildInfo(st, id) ==
    IF id \in DOMAIN st THEN st[id].info ELSE <<>>

\* get_upload_asserted_platform(upload_id): TRUE iff it does not raise NotFound
UploadExists(st, id) == id \in DOMAIN st /\ st[id].bytes # <<>>

\* list_all_uploaded_files(): upload_id -> stored file names
ListAllUploadedFiles(st) == [id \in DOMAIN st |-> st[id].files]

\* get_latest_upload_id_by_bundle_id(bundle_id): <<id>>, or <<>> for None
GetLatestUploadId(idx, b) == IF b \in DOMAIN idx THEN <<idx[b]>> ELSE <<>>

\* dict update d[k] = v
Put(d, k, v) == [x \in DOMAIN d \cup {k} |-> IF x = k THEN v ELSE d[x]]

\* Variant: the artifact is removed, its metadata side-file stays behind.
DropArtifactOnly(d, k) ==
    [d EXCEPT ![k] = [files |-> {MetaName}, bytes |-> <<>>, info |-> @.info]]

\* dict removal del d[k]
Drop(d, k) == [x \in DOMAIN d \ {k} |-> d[x]]

\* Variant: save_upload writes the artifact into the upload's own directory.
SaveArtifactInPlace(st, tm, w, id, dir) ==
    [store |-> Put(st, id, dir),
     tmp |-> [tm EXCEPT ![w] = <<[id |-> id, dir |-> dir]>>]]

\* save_upload: the artifact is written to worker w's temporary directory;
\* the store and the temporary directories afterwards
SaveArtifact(st, tm, w, id, dir) ==
    [store |-> st,
     tmp |-> [tm EXCEPT ![w] = <<[id |-> id, dir |-> dir]>>]]

\* Variant: saving a stored upload_id rewrites its metadata side-file.
SaveExistingRewrites(st, info) == [st EXCEPT ![info.upload_id].info = <<info>>]

\* save_upload of an upload_id that is already stored: a no-op success
SaveExisting(st, info) == st

\* l with every occurrence of old replaced by new
ReplaceTag(l, old, new) == [i \in DOMAIN l |-> IF l[i] = old THEN new ELSE l[i]]

\* update_tag(old, new) in storage: can it be applied?
StorageUpdateTagOk(tg, old, new) == old \in tg /\ new \notin tg

\* update_tag(old, new) in storage: the global set afterwards
RenamedTagSet(tg, old, new) == (tg \ {old}) \cup {new}

\* update_tag(old, new) in storage: the cascade over every upload's tag list
RenamedStore(st, old, new) ==
    [id \in DOMAIN st |->
        IF st[id].info = <<>> THEN st[id]
        ELSE [st[id] EXCEPT !.info =
                 <<[@[1] EXCEPT !.tags = ReplaceTag(@, old, new)]>>]]

----------------------------------------------------------------------------
(* State *)

VARIABLES
    tags,        \* the global tag set
    store,       \* upload_id -> directory (files, artifact bytes, BuildInfo)
    latest,      \* BundleLatestIndex: bundle_id -> upload_id
    tmp,         \* per worker: the temporary directory of a save in progress
    clock,       \* the time source of created_at
    pc,          \* per worker: position in the request being handled
    req,         \* per worker: the locals of the request being handled
    resp,        \* the response of the request that just ended, until it is sent
    http,        \* the HTTP request being routed: its route and X-Auth-Token
    router       \* the APIRouter add_head_routes works on, and its loop

vars == <<tags, store, latest, tmp, clock, pc, req, resp, http, router>>

shared == <<tags, store, latest>>

Empty == [x \in {} |-> 0]

NoReq == [op |-> "none"]
NoResp == [op |-> "none", status |-> "none"]
NoTmp == <<>>
NoHttp == [stage |-> "none"]
NoRouter == [stage |-> "none"]

Init ==
    /\ tags = {}
    /\ store = Empty
    /\ latest = Empty
    /\ tmp = [w \in Workers |-> NoTmp]
    /\ clock = 0
    /\ pc = [w \in Workers |-> "idle"]
    /\ req = [w \in Workers |-> NoReq]
    /\ resp = NoResp
    /\ http = NoHttp
    /\ router = NoRouter

\* Worker w stands at label l of its handler. A handler moves only when the
\* last response has been sent.
At(w, l) ==
    /\ resp = NoResp
    /\ pc[w] = l

\* The request of worker w ends with outcome r.
Finish(w, r) ==
    /\ pc' = [pc EXCEPT ![w] = "idle"]
    /\ req' = [req EXCEPT ![w] = NoReq]
    /\ resp' = r
    /\ UNCHANGED <<http, router>>

\* The request of worker w goes on at label l with locals q.
Goto(w, l, q) ==
    /\ pc' = [pc EXCEPT ![w] = l]
    /\ req' = [req EXCEPT ![w] = q]
    /\ resp' = NoResp
    /\ UNCHANGED <<http, router>>

----------------------------------------------------------------------------
(* Tag management: create_tag, update_tag *)

\* Variant: the return value of add_tag is not looked at.
CreateTagUnchecked(w, raw) ==
    /\ At(w, "idle")
    /\ LET tag == Strip(raw) IN
       IF ~Truthy(tag)
       THEN /\ Finish(w, [op |-> "create_tag", status |-> "HTTP400"])
            /\ UNCHANGED tags
       ELSE /\ tags' = tags \cup {tag}
            /\ Finish(w, [op |-> "create_tag", status |-> "ok", tag |-> tag])
    /\ UNCHANGED <<store, latest, tmp, clock>>

\* POST /api/tags
CreateTag(w, raw) ==
    /\ At(w, "idle")
    /\ LET tag == Strip(raw) IN
       IF ~Truthy(tag)
       THEN /\ Finish(w, [op |-> "create_tag", status |-> "HTTP400"])
            /\ UNCHANGED tags
       ELSE IF tag \in tags      \* add_tag(tag) returned False
       THEN /\ Finish(w, [op |-> "create_tag", status |-> "HTTP409"])
            /\ UNCHANGED tags
       ELSE /\ tags' = tags \cup {tag}
            /\ Finish(w, [op |-> "create_tag", status |-> "ok", tag |-> tag])
    /\ UNCHANGED <<store, latest, tmp, clock>>

\* The outcome of an update_tag request.
\* badNew: the request was refused for its empty new_tag.
UpdateTagResp(status, old, new, badNew) ==
    [op |-> "update_tag", status |-> status, old |-> old, new |-> new,
     badNew |-> badNew]

\* PUT /api/tags/{old_tag}: the new_tag checks and tag_exists(old_tag)
UpdateTagCheckOld(w, old, rawNew) ==
    /\ At(w, "idle")
    /\ IF ~rawNew.present \/ ~Truthy(Strip(rawNew.name))
       THEN Finish(w, UpdateTagResp("HTTP400", old, rawNew.name, TRUE))
       ELSE LET new == Strip(rawNew.name) IN
            IF old \notin tags
            THEN Finish(w, UpdateTagResp("HTTP404", old, new, FALSE))
            ELSE Goto(w, "ut_new", [op |-> "update_tag", old |-> old, new |-> new])
    /\ UNCHANGED <<tags, store, latest, tmp, clock>>

\* Variant: the handler does not look for new_tag before renaming.
UpdateTagCheckNewSkipped(w) ==
    /\ At(w, "ut_new")
    /\ Goto(w, "ut_store", req[w])
    /\ UNCHANGED <<tags, store, latest, tmp, clock>>

\* PUT /api/tags/{old_tag}: tag_exists(new_tag)
UpdateTagCheckNew(w) ==
    /\ At(w, "ut_new")
    /\ IF req[w].new \in tags
       THEN Finish(w, UpdateTagResp("HTTP409", req[w].old, req[w].new, FALSE))
       ELSE Goto(w, "ut_store", req[w])
    /\ UNCHANGED <<tags, store, latest, tmp, clock>>

\* Variant: the return value of storage_update_tag is not looked at.
UpdateTagStatusIgnored(renamed) == "ok"

\* update_tag: the status reported for storage_update_tag's return value
UpdateTagStatus(renamed) == IF renamed THEN "ok" ELSE "HTTP400"

\* PUT /api/tags/{old_tag}: storage_update_tag(old_tag, new_tag)
UpdateTagStore(w) ==
    /\ At(w, "ut_store")
    /\ LET old == req[w].old
           new == req[w].new
           renamed == StorageUpdateTagOk(tags, old, new)
       IN /\ IF renamed
             THEN /\ tags' = RenamedTagSet(tags, old, new)
                  /\ store' = RenamedStore(store, old, new)
             ELSE UNCHANGED <<tags, store>>
          /\ Finish(w, UpdateTagResp(UpdateTagStatus(renamed), old, new, FALSE))
    /\ UNCHANGED <<latest, tmp, clock>>

----------------------------------------------------------------------------
(* Upload: POST /upload and POST /api/upload *)

\* The file of a request: its name and bytes.
File(name, c) == <<[name |-> name, bytes |-> c]>>

\* The outcome of an upload that failed; read tells whether the file's bytes
\* had been read when it failed, file is the file if it had been looked at.
UploadFailure(status, read, file) ==
    [op |-> "upload", status |-> status, read |-> read, file |-> file]

\* Variant: the file is read before its name is looked at.
ExtensionFailureAfterRead(name, c) ==
    UploadFailure("InvalidFileTypeError", TRUE, File(name, c))

\* The statuses of a failed upload.
UploadFailures ==
    {"HTTP400", "InvalidFileTypeError", "MalformedArchive", "MissingIdentityFields"}

\* The outcome of a successful upload of bytes c: _upload_app's return value.
UploadSuccess(info, c) ==
    [op |-> "upload", status |-> "ok", info |-> info, bytes |-> c]

\* if filename is None / not .ipa or .apk: raise InvalidFileTypeError(),
\* before app_file.file.read()
ExtensionFailure(name, c) ==
    UploadFailure("InvalidFileTypeError", FALSE, File(name, c))

\* Variant: the requested tags are trimmed but not looked up.
UploadValidateUnchecked(w, rawTags) ==
    /\ At(w, "idle")
    /\ LET given == rawTags.present /\ rawTags.list # <<>>
           valid_tags == IF given THEN StripTags(rawTags.list) ELSE <<>>
       IN Goto(w, "up_app", [op |-> "upload", tags |-> valid_tags])
    /\ UNCHANGED <<tags, store, latest, tmp, clock>>

\* _plaintext_post_upload / _json_api_post_upload: the requested tags are
\* trimmed and checked against get_all_tags()
UploadValidate(w, rawTags) ==
    /\ At(w, "idle")
    /\ LET given == rawTags.present /\ rawTags.list # <<>>
           valid_tags == IF given THEN StripTags(rawTags.list) ELSE <<>>
           invalid_tags == InvalidTags(valid_tags, tags)
       IN IF given /\ invalid_tags # <<>>
          THEN Finish(w, UploadFailure("HTTP400", FALSE, <<>>))
          ELSE Goto(w, "up_app", [op |-> "upload", tags |-> valid_tags])
    /\ UNCHANGED <<tags, store, latest, tmp, clock>>

\* build_info.tags = tags or []
WithTags(info, tagList) == [info EXCEPT !.tags = tagList]

\* _upload_app: extension, read, get_build_info, tags; then save_upload
\* begins: nothing to do when the upload_id is already stored, otherwise the
\* artifact is written to a temporary directory. The clock stamps created_at
\* at most maxClock times.
UploadApp(w, name, c, maxClock) ==
    /\ At(w, "up_app")
    /\ LET platform == PlatformOf(name) IN
       IF platform = "InvalidFileTypeError"
       THEN /\ Finish(w, ExtensionFailure(name, c))
            /\ UNCHANGED <<clock, tmp, store>>
       ELSE LET bi == GetBuildInfo(platform, c, clock + 1) IN
            IF bi.err # "none"
            THEN /\ Finish(w, UploadFailure(bi.err, TRUE, File(name, c)))
                 /\ UNCHANGED <<clock, tmp, store>>
            ELSE LET info == WithTags(bi.info[1], req[w].tags) IN
                 /\ clock < maxClock
                 /\ clock' = clock + 1
                 /\ IF info.upload_id \in DOMAIN store
                    THEN /\ Finish(w, UploadSuccess(info, c))
                         /\ store' = SaveExisting(store, info)
                         /\ UNCHANGED tmp
                    ELSE LET saved == SaveArtifact(store, tmp, w, info.upload_id,
                                                   ArtifactDir(name, c))
                         IN /\ tmp' = saved.tmp
                            /\ store' = saved.store
                            /\ Goto(w, "save_publish",
                                    [op |-> "upload", info |-> info, bytes |-> c])
    /\ UNCHANGED <<tags, latest>>

\* save_upload: the serialized BuildInfo joins the artifact in the temporary
\* directory, which is then published by one atomic rename (dropped when the
\* upload_id has been stored meanwhile)
SavePublish(w) ==
    /\ At(w, "save_publish")
    /\ LET id == tmp[w][1].id
           dir == WithInfo(tmp[w][1].dir, req[w].info)
       IN IF id \in DOMAIN store
          THEN /\ Finish(w, UploadSuccess(req[w].info, req[w].bytes))
               /\ store' = SaveExisting(store, req[w].info)
          ELSE /\ store' = Put(store, id, dir)
               /\ Goto(w, "save_index", req[w])
    /\ tmp' = [tmp EXCEPT ![w] = NoTmp]
    /\ UNCHANGED <<tags, latest, clock>>

\* Variant: the index file is rewritten holding only the entry of this save.
SaveIndexRewritten(w) ==
    /\ At(w, "save_index")
    /\ LET info == req[w].info IN
       /\ latest' = Put(Empty, info.bundle_id, info.upload_id)
       /\ Finish(w, UploadSuccess(info, req[w].bytes))
    /\ UNCHANGED <<tags, store, tmp, clock>>

\* save_upload: BundleLatestIndex[bundle_id] = upload_id
SaveIndex(w) ==
    /\ At(w, "save_index")
    /\ LET info == req[w].info IN
       /\ latest' = Put(latest, info.bundle_id, info.upload_id)
       /\ Finish(w, UploadSuccess(info, req[w].bytes))
    /\ UNCHANGED <<tags, store, tmp, clock>>

\* The worker dies in the middle of save_upload.
Crash(w) ==
    /\ At(w, "save_publish") \/ At(w, "save_index")
    /\ Finish(w, [op |-> "upload", status |-> "crashed",
                   id |-> req[w].info.upload_id])
    /\ tmp' = [tmp EXCEPT ![w] = NoTmp]    \* nothing reads a dead worker's directory
    /\ UNCHANGED <<tags, store, latest, clock>>

----------------------------------------------------------------------------
(* Delete: DELETE /api/delete/{upload_id} *)

\* _api_delete_app_upload: get_upload_asserted_platform(upload_id)
DeleteCheck(w, id) ==
    /\ At(w, "idle")
    /\ IF ~UploadExists(store, id)
       THEN Finish(w, [op |-> "delete", status |-> "NotFoundError", id |-> id])
       ELSE Goto(w, "del_store", [op |-> "delete", id |-> id])
    /\ UNCHANGED <<tags, store, latest, tmp, clock>>

\* Variant: the handler answers without calling delete_upload.
DeleteStoreSkipped(w) ==
    /\ At(w, "del_store")
    /\ Finish(w, [op |-> "delete", status |-> "ok", id |-> req[w].id])
    /\ UNCHANGED <<tags, store, latest, tmp, clock>>

\* _api_delete_app_upload: delete_upload(upload_id)
DeleteStore(w) ==
    /\ At(w, "del_store")
    /\ LET id == req[w].id IN
       IF id \in DOMAIN store
       THEN /\ store' = Drop(store, id)
            /\ Finish(w, [op |-> "delete", status |-> "ok", id |-> id])
       ELSE /\ Finish(w, [op |-> "delete", status |-> "NotFoundError", id |-> id])
            /\ UNCHANGED store
    /\ UNCHANGED <<tags, latest, tmp, clock>>

----------------------------------------------------------------------------
(* Latest upload of a bundle: GET /api/bundle/{bundle_id}/latest_upload *)

LatestFailure(b) == [op |-> "latest", status |-> "NotFoundError", bundle |-> b]

\* The stored uploads of bundle b.
UploadsOfBundle(st, b) ==
    {id \in DOMAIN st : st[id].info # <<>> /\ st[id].info[1].bundle_id = b}

\* Variant: when the indexed upload is gone, another upload of the bundle
\* is served in its place.
LatestIndexFallback(w, b) ==
    /\ At(w, "idle")
    /\ LET upload_id == GetLatestUploadId(latest, b) IN
       IF upload_id = <<>>
       THEN Finish(w, LatestFailure(b))
       ELSE IF upload_id[1] \notin DOMAIN store /\ UploadsOfBundle(store, b) # {}
       THEN \E other \in UploadsOfBundle(store, b) :
               Goto(w, "lt_assert", [op |-> "latest", bundle |-> b, id |-> other])
       ELSE Goto(w, "lt_assert", [op |-> "latest", bundle |-> b,
                                  id |-> upload_id[1]])
    /\ UNCHANGED <<tags, store, latest, tmp, clock>>

\* api_get_latest_upload_by_bundle_id: get_latest_upload_id_by_bundle_id
LatestIndex(w, b) ==
    /\ At(w, "idle")
    /\ LET upload_id == GetLatestUploadId(latest, b) IN
       IF upload_id = <<>>
       THEN Finish(w, LatestFailure(b))
       ELSE Goto(w, "lt_assert", [op |-> "latest", bundle |-> b,
                                  id |-> upload_id[1]])
    /\ UNCHANGED <<tags, store, latest, tmp, clock>>

\* api_get_latest_upload_by_bundle_id: get_upload_asserted_platform(upload_id)
LatestAssert(w) ==
    /\ At(w, "lt_assert")
    /\ IF ~UploadExists(store, req[w].id)
       THEN Finish(w, LatestFailure(req[w].bundle))
       ELSE Goto(w, "lt_load", req[w])
    /\ UNCHANGED <<tags, store, latest, tmp, clock>>

\* api_get_latest_upload_by_bundle_id: load_build_info(upload_id)
LatestLoad(w) ==
    /\ At(w, "lt_load")
    /\ LET info == LoadBuildInfo(store, req[w].id) IN
       IF info = <<>>
       THEN Finish(w, LatestFailure(req[w].bundle))
       ELSE Finish(w, [op |-> "latest", status |-> "ok",
                       bundle |-> req[w].bundle, info |-> info[1]])
    /\ UNCHANGED <<tags, store, latest, tmp, clock>>

----------------------------------------------------------------------------
(* Listing: GET /api/uploads *)

\* str.lower(), on the letters that occur
LowerChar(ch) ==
    CASE ch = "I" -> "i"
      [] ch = "O" -> "o"
      [] ch = "S" -> "s"
      [] OTHER -> ch

Lower(str) == [i \in DOMAIN str |-> LowerChar(str[i])]

Android == <<"a", "n", "d", "r", "o", "i", "d">>

\* Platform.value
PlatformValue(platform) ==
    IF platform = "ios" THEN <<"i", "o", "s">> ELSE Android

\* The platform query parameter: absent (None) or a string.
NoPlatform == [present |-> FALSE, value |-> <<>>]
PlatformQueries ==
    {[present |-> TRUE, value |-> v] :
        v \in {<<"I", "O", "S">>, Android, <<>>}}
    \cup {NoPlatform}

\* platform = platform.lower() if platform else None: <<p>>, or <<>> for None
PlatformFilter(q) ==
    IF q.present /\ Truthy(q.value) THEN <<Lower(q.value)>> ELSE <<>>

\* tags_filter = set([t.strip() for t in tags if t.strip()]) if tags else None;
\* None and the empty set are both falsy where the filter is applied
TagsFilter(q) ==
    IF q.present /\ q.list # <<>> THEN Range(StripTags(q.list)) ELSE {}

\* file_name.startswith(".")
IsHidden(name) == name # <<>> /\ name[1] = "."

ListEntry(id, name, info) ==
    [upload_id |-> id, file_name |-> name, build_info |-> info,
     tags |-> info.tags]

\* Variant: every stored file of a listed upload gets an entry.
ListEntriesAllFiles(uploads, st, platform, tags_filter) ==
    UNION {LET info == LoadBuildInfo(st, id) IN
           IF info = <<>> THEN {}
           ELSE IF platform # <<>> /\ Lower(PlatformValue(info[1].platform)) # platform[1]
           THEN {}
           ELSE IF tags_filter # {} /\ ~(tags_filter \subseteq Range(info[1].tags))
           THEN {}
           ELSE {ListEntry(id, name, info[1]) : name \in uploads[id]}
           : id \in DOMAIN uploads}

\* The loop of api_list_all_uploaded_files over the listed uploads: an upload
\* whose BuildInfo does not load, or that a filter excludes, is skipped; the
\* others get one entry per file that is neither hidden nor a .json file.
ListEntries(uploads, st, platform, tags_filter) ==
    UNION {LET info == LoadBuildInfo(st, id) IN
           IF info = <<>> THEN {}
           ELSE IF platform # <<>> /\ Lower(PlatformValue(info[1].platform)) # platform[1]
           THEN {}
           ELSE IF tags_filter # {} /\ ~(tags_filter \subseteq Range(info[1].tags))
           THEN {}
           ELSE {ListEntry(id, name, info[1]) :
                    name \in {n \in uploads[id] :
                                 ~(IsHidden(n) \/ EndsWithExt(n, "json"))}}
           : id \in DOMAIN uploads}

\* api_list_all_uploaded_files: uploads = list_all_uploaded_files()
ListSnapshot(w, platform, tagsQuery) ==
    /\ At(w, "idle")
    /\ Goto(w, "ls_build",
            [op |-> "list", uploads |-> ListAllUploadedFiles(store),
             platform |-> platform, tags |-> tagsQuery])
    /\ UNCHANGED <<tags, store, latest, tmp, clock>>

\* api_list_all_uploaded_files: the loop that loads each BuildInfo and builds
\* the result
ListBuild(w) ==
    /\ At(w, "ls_build")
    /\ Finish(w, [op |-> "list", status |-> "ok",
                   uploads |-> req[w].uploads,
                   platform |-> req[w].platform, tags |-> req[w].tags,
                   result |-> ListEntries(req[w].uploads, store,
                                          PlatformFilter(req[w].platform),
                                          TagsFilter(req[w].tags))])
    /\ UNCHANGED <<tags, store, latest, tmp, clock>>

----------------------------------------------------------------------------
(* Routing, authentication and error responses: the route decorators of
   api_router.py, the exception handlers of app.py *)

\* UPLOADS_SECRET_AUTH_TOKEN, and the X-Auth-Token headers a client may send
Secret == "secret"
NoToken == "<None>"
Tokens == {Secret, "wrong", NoToken}

\* A route: its path by segments, its handler, and whether it is declared
\* with dependencies=[Depends(x_auth_token_validator)].
Route(method, path, handler, auth) ==
    [method |-> method, path |-> path, handler |-> handler, auth |-> auth]

ApiRoutes ==
    {Route("POST", <<"upload">>, "upload", FALSE),
     Route("POST", <<"api", "upload">>, "upload", FALSE),
     Route("DELETE", <<"api", "delete", "{upload_id}">>, "delete", FALSE),
     Route("DELETE", <<"delete", "{upload_id}">>, "delete", FALSE),
     Route("GET", <<"api", "bundle", "{bundle_id}", "latest_upload">>,
           "latest", FALSE),
     Route("GET", <<"api", "uploads">>, "list", TRUE),
     Route("POST", <<"api", "tags">>, "create_tag", FALSE),
     Route("PUT", <<"api", "tags", "{old_tag}">>, "update_tag", FALSE)}

\* request.url.path.startswith("/api/")
StartsWithApi(path) == Len(path) >= 2 /\ path[1] = "api"

\* APIKeyHeader(name="X-Auth-Token") and x_auth_token_validator: the error
\* raised, or "ok"
XAuthTokenValidator(token) ==
    IF token = NoToken THEN "HTTP403"
    ELSE IF token # Secret THEN "UnauthorizedError"
    ELSE "ok"

\* The errors that are UserErrors; the others are HTTPExceptions.
UserErrors == {"InvalidFileTypeError", "NotFoundError", "UnauthorizedError"}

\* The status code an error carries.
StatusCode(status) ==
    CASE status = "HTTP400" -> 400
      [] status = "HTTP403" -> 403
      [] status = "HTTP404" -> 404
      [] status = "HTTP409" -> 409
      [] status = "InvalidFileTypeError" -> 400
      [] status = "UnauthorizedError" -> 401
      [] status = "NotFoundError" -> 404

Exception(status) ==
    [type |-> status, status_code |-> StatusCode(status), detail |-> status]

Response(status_code, media, content) ==
    [op |-> "http", status_code |-> status_code, media |-> media,
     content |-> content]

\* PlainTextResponse(content=...): the status code defaults to 200
PlainTextResponse(content) == Response(200, "text/plain", content)

\* html_router.render_error_page
RenderErrorPage(exception) ==
    Response(exception.status_code, "text/html", exception.detail)

\* exception_handler
ExceptionHandler(path, exception) ==
    IF StartsWithApi(path)
    THEN PlainTextResponse(exception.detail)
    ELSE RenderErrorPage(exception)

\* status_codes_to_default_exception_types.get(status_code): <<type>> or <<>>
DefaultExceptionType(status_code) ==
    CASE status_code = 401 -> <<"UnauthorizedError">>
      [] status_code = 404 -> <<"NotFoundError">>
      [] OTHER -> <<>>

\* starlette_exception_handler
StarletteExceptionHandler(path, exception) ==
    LET filtered_exception == DefaultExceptionType(exception.status_code) IN
    IF filtered_exception # <<>>
    THEN ExceptionHandler(path, Exception(filtered_exception[1]))
    ELSE ExceptionHandler(path, exception)

\* A request arrives on a route and its dependencies are resolved.
Receive(w, route, token) ==
    /\ http = NoHttp
    /\ At(w, "idle")
    /\ http' = [stage |-> "routed", route |-> route, token |-> token]
    /\ resp' = IF route.auth /\ XAuthTokenValidator(token) # "ok"
               THEN [op |-> "auth", status |-> XAuthTokenValidator(token)]
               ELSE NoResp
    /\ UNCHANGED <<tags, store, latest, tmp, clock, pc, req, router>>

\* The routed request stands before the handler named h.
Routed(h) == http # NoHttp /\ http.route.handler = h

\* The outcome of the routed request becomes its HTTP response: the return
\* value of the handler, or what the exception handlers make of the error.
HandleOutcome ==
    /\ http # NoHttp
    /\ resp # NoResp
    /\ resp.op # "http"
    /\ resp' = IF resp.status = "ok"
               THEN Response(200, "handler", "ok")
               ELSE IF resp.status \in UserErrors
               THEN ExceptionHandler(http.route.path, Exception(resp.status))
               ELSE StarletteExceptionHandler(http.route.path,
                                              Exception(resp.status))
    /\ UNCHANGED <<tags, store, latest, tmp, clock, pc, req, http, router>>

\* The HTTP response is sent to the client.
Send ==
    /\ resp.op = "http"
    /\ resp' = NoResp
    /\ http' = NoHttp
    /\ UNCHANGED <<tags, store, latest, tmp, clock, pc, req, router>>

----------------------------------------------------------------------------
(* add_head_routes (app.py) *)

APIRoute(methods, handler, include_in_schema) ==
    [kind |-> "APIRoute", methods |-> methods, handler |-> handler,
     include_in_schema |-> include_in_schema]

\* A route that is no APIRoute: it has no methods.
Mount == [kind |-> "Mount", handler |-> "static"]

\* The routes a router may hold on entry.
EntryRoutes ==
    {APIRoute({"GET"}, "page", TRUE),
     APIRoute({"GET", "POST"}, "form", FALSE),
     APIRoute({"POST"}, "submit", TRUE),
     Mount}

\* isinstance(route, APIRoute) and "GET" in route.methods
IsGetRoute(route) == route.kind = "APIRoute" /\ "GET" \in route.methods

\* Variant: new_route is the route itself, not a copy of it.
AppendHeadAliased(routes, i) ==
    LET new_route == [routes[i] EXCEPT !.methods = {"HEAD"},
                                       !.include_in_schema = FALSE]
    IN Append([routes EXCEPT ![i] = new_route], new_route)

\* new_route = copy(route); new_route.methods = {"HEAD"};
\* new_route.include_in_schema = False; router.routes.append(new_route)
AppendHead(routes, i) ==
    LET new_route == [routes[i] EXCEPT !.methods = {"HEAD"},
                                       !.include_in_schema = FALSE]
    IN Append(routes, new_route)

\* One iteration of `for route in router.routes`: the loop visits the list by
\* position, the routes appended meanwhile included.
HeadLoop ==
    /\ router.stage = "loop"
    /\ router.i <= Len(router.routes)
    /\ router' = [router EXCEPT
                    !.routes = IF IsGetRoute(router.routes[router.i])
                               THEN AppendHead(router.routes, router.i)
                               ELSE @,
                    !.i = @ + 1]
    /\ UNCHANGED <<tags, store, latest, tmp, clock, pc, req, resp, http>>

\* The list is exhausted: return router
HeadReturn ==
    /\ router.stage = "loop"
    /\ router.i > Len(router.routes)
    /\ router' = [router EXCEPT !.stage = "done"]
    /\ UNCHANGED <<tags, store, latest, tmp, clock, pc, req, resp, http>>

----------------------------------------------------------------------------
(* Specification *)

\* The (file name, bytes) pairs a client may upload.
UploadFiles ==
    {<<IpaName, 1>>, <<IpaName, 2>>, <<ApkName, 3>>, <<IpaName, 4>>,
     <<IpaName, 5>>, <<ApkName, 1>>, <<TxtName, 1>>, <<NoName, 2>>}

\* One artifact, and one file that is none.
OneFile == {<<IpaName, 1>>, <<TxtName, 1>>}

\* The response of the request that just ended is sent to its client.
Respond ==
    /\ resp # NoResp
    /\ resp' = NoResp
    /\ UNCHANGED <<tags, store, latest, tmp, clock, pc, req, http, router>>

\* One step of worker w, its inputs drawn from the given sets.
Step(w, names, tagLists, files, maxClock) ==
    \/ \E raw \in names : CreateTag(w, raw)
    \/ \E old \in names, rawNew \in RawNewTags :
          /\ rawNew.present => rawNew.name \in names
          /\ UpdateTagCheckOld(w, old, rawNew)
    \/ UpdateTagCheckNew(w)
    \/ UpdateTagStore(w)
    \/ \E rawTags \in tagLists : UploadValidate(w, rawTags)
    \/ \E f \in files : UploadApp(w, f[1], f[2], maxClock)
    \/ SavePublish(w)
    \/ SaveIndex(w)
    \/ \E id \in UploadIds : DeleteCheck(w, id)
    \/ DeleteStore(w)
    \/ \E b \in BundleIds : LatestIndex(w, b)
    \/ LatestAssert(w)
    \/ LatestLoad(w)

\* Concurrent workers, which may die while saving.
Next ==
    \/ Respond
    \/ \E w \in Workers :
          Step(w, SmallNames, RawTagLists(SmallNames, ConcTags), UploadFiles,
               ConcClock)
    \/ \E w \in Workers : Crash(w)

Spec == Init /\ [][Next]_vars

\* Requests handled one at a time, each to its end.
NextSeq ==
    \/ Respond
    \/ Step("w1", SmallNames, RawTagLists(SmallNames, MaxTags), UploadFiles,
            MaxClock)

SpecSeq == Init /\ [][NextSeq]_vars

\* Concurrent workers over one artifact; tag requests range over the larger
\* set of names.
NextTags ==
    \/ Respond
    \/ \E w \in Workers :
          Step(w, RawNames, RawTagLists(SmallNames, MaxTags), OneFile, ConcClock)

SpecTags == Init /\ [][NextTags]_vars

\* Listing next to uploads and deletes of concurrent workers.
ListFiles == {<<IpaName, 1>>, <<HiddenIpaName, 2>>, <<ApkName, 3>>}
ListNames == {<<"a">>, <<SP, "a">>}

NextList ==
    \/ Respond
    \/ \E w \in Workers, raw \in {<<"a">>} : CreateTag(w, raw)
    \/ \E w \in Workers, rawTags \in RawTagLists({<<"a">>}, ConcTags) :
          UploadValidate(w, rawTags)
    \/ \E w \in Workers, f \in ListFiles : UploadApp(w, f[1], f[2], ConcClock)
    \/ \E w \in Workers : SavePublish(w)
    \/ \E w \in Workers : SaveIndex(w)
    \/ \E w \in Workers, id \in UploadIds : DeleteCheck(w, id)
    \/ \E w \in Workers : DeleteStore(w)
    \/ \E w \in Workers, platform \in PlatformQueries,
          tagsQuery \in RawTagLists(ListNames, ConcTags) :
          ListSnapshot(w, platform, tagsQuery)
    \/ \E w \in Workers : ListBuild(w)

SpecList == Init /\ [][NextList]_vars

\* Requests with their routes, tokens and HTTP responses, handled one at a
\* time by one worker.
HttpFiles == {<<IpaName, 1>>, <<ApkName, 3>>, <<TxtName, 1>>}

NextHttp ==
    \/ \E route \in ApiRoutes, token \in Tokens : Receive("w1", route, token)
    \/ HandleOutcome
    \/ Send
    \/ \E raw \in ListNames : Routed("create_tag") /\ CreateTag("w1", raw)
    \/ \E old \in ListNames, rawNew \in RawNewTags :
          /\ Routed("update_tag")
          /\ rawNew.present => rawNew.name \in {<<"b">>, <<SP>>}
          /\ UpdateTagCheckOld("w1", old, rawNew)
    \/ UpdateTagCheckNew("w1")
    \/ UpdateTagStore("w1")
    \/ \E rawTags \in RawTagLists({<<"a">>, <<"b">>}, ConcTags) :
          Routed("upload") /\ UploadValidate("w1", rawTags)
    \/ \E f \in HttpFiles : UploadApp("w1", f[1], f[2], ConcClock)
    \/ SavePublish("w1")
    \/ SaveIndex("w1")
    \/ \E id \in UploadIds : Routed("delete") /\ DeleteCheck("w1", id)
    \/ DeleteStore("w1")
    \/ \E b \in BundleIds : Routed("latest") /\ LatestIndex("w1", b)
    \/ LatestAssert("w1")
    \/ LatestLoad("w1")
    \/ \E platform \in PlatformQueries,
          tagsQuery \in RawTagLists({<<"a">>}, ConcTags) :
          Routed("list") /\ ListSnapshot("w1", platform, tagsQuery)
    \/ ListBuild("w1")

SpecHttp == Init /\ [][NextHttp]_vars

\* add_head_routes called on a router; entry keeps the routes it held then.
InitHead ==
    /\ tags = {}
    /\ store = Empty
    /\ latest = Empty
    /\ tmp = [w \in Workers |-> NoTmp]
    /\ clock = 0
    /\ pc = [w \in Workers |-> "idle"]
    /\ req = [w \in Workers |-> NoReq]
    /\ resp = NoResp
    /\ http = NoHttp
    /\ \E routes \in SeqsUpTo(EntryRoutes, MaxRoutes) :
          router = [stage |-> "loop", routes |-> routes, i |-> 1,
                    entry |-> routes]

NextHead == HeadLoop \/ HeadReturn

\* The call runs on: nothing suspends the loop.
SpecHead == InitHead /\ [][NextHead]_vars /\ WF_vars(NextHead)

----------------------------------------------------------------------------
(* Properties *)

StoredIds == DOMAIN store

\* The tag list of the stored upload id.
TagsOf(st, id) == IF st[id].info = <<>> THEN <<>> ELSE st[id].info[1].tags

UploadOk(r) == r.op = "upload" /\ r.status = "ok"

UploadFailed(r) == r.op = "upload" /\ r.status \in UploadFailures

\* C1: every tag name in a stored upload's tag list is in the global tag set,
\* whatever the interleaving of create_tag, upload, rename and delete.
C1_NoDanglingTags ==
    \A id \in StoredIds : Range(TagsOf(store, id)) \subseteq tags

\* C2: a successful rename_tag(old, new) leaves old out of the global set and
\* new in it, every other tag of the set as it was, new at every position of
\* every upload's tag list where old was, and old in no upload's tag list.
C2_RenameTotal ==
    [][(resp'.op = "update_tag" /\ resp'.status = "ok") =>
          LET old == resp'.old
              new == resp'.new
          IN /\ old \notin tags'
             /\ new \in tags'
             /\ tags' \ {new} = tags \ {old}
             /\ DOMAIN store' = DOMAIN store
             /\ \A id \in StoredIds :
                   LET before == TagsOf(store, id)
                       after == TagsOf(store', id)
                   IN /\ Len(after) = Len(before)
                      /\ \A i \in DOMAIN before :
                            before[i] = old => after[i] = new
                      /\ old \notin Range(after)]_vars

\* A rename has just succeeded on an upload that lists two tags, the renamed
\* one second, with a third tag in the global set.
C2_Witness ==
    /\ resp.op = "update_tag" /\ resp.status = "ok"
    /\ Cardinality(tags) >= 2
    /\ \E id \in StoredIds :
          LET l == TagsOf(store, id)
          IN Len(l) = 2 /\ l[2] = resp.new /\ l[1] # resp.new

\* C3: rename_tag(old, new) fails with NotFound when old is not in the global
\* tag set and with Conflict when new is already in it, and a failed rename
\* leaves the global tag set and every upload's tag list unchanged.
C3_RenameFailures ==
    [][(resp'.op = "update_tag" /\ ~resp'.badNew) =>
          /\ resp'.old \notin tags => resp'.status = "HTTP404"
          /\ (resp'.old \in tags /\ resp'.new \in tags) => resp'.status = "HTTP409"
          /\ resp'.status # "ok" => UNCHANGED <<tags, store>>]_vars

\* A rename onto an existing name has just been refused while an upload
\* lists the old name.
C3_Witness ==
    /\ resp.op = "update_tag" /\ resp.status = "HTTP409"
    /\ resp.old \in tags /\ resp.new \in tags
    /\ \E id \in StoredIds : resp.old \in Range(TagsOf(store, id))

\* C4: ingesting bytes that are already stored succeeds, with the upload_id
\* they are stored under, and no two stored records hold the same bytes;
\* concurrent ingests of the same bytes carry the same upload_id.
C4_Idempotent ==
    /\ \A i, j \in StoredIds : store[i].bytes = store[j].bytes => i = j
    /\ UploadOk(resp) =>
          \A i \in StoredIds :
             store[i].bytes = <<resp.bytes>> => i = resp.info.upload_id
    /\ (UploadFailed(resp) /\ resp.file # <<>>) =>
          ~\E i \in StoredIds :
              /\ store[i].bytes = <<resp.file[1].bytes>>
              /\ resp.file[1].name \in store[i].files
    /\ \A w1, w2 \in Workers :
          (/\ pc[w1] \in {"save_publish", "save_index"}
           /\ pc[w2] \in {"save_publish", "save_index"}
           /\ req[w1].bytes = req[w2].bytes)
             => req[w1].info.upload_id = req[w2].info.upload_id

\* A second ingest of stored bytes has just succeeded: the record is the one
\* the first ingest created, and the only one.
C4_Witness ==
    /\ UploadOk(resp)
    /\ resp.info.upload_id \in StoredIds
    /\ store[resp.info.upload_id].info[1].created_at < resp.info.created_at
    /\ Cardinality(StoredIds) = 1

\* C5: after a successful ingest, get(upload_id) returns a BuildInfo equal in
\* every field to the one the ingest returned, for a first upload and for a
\* re-upload of stored bytes alike.
C5_RoundTrip ==
    UploadOk(resp) => LoadBuildInfo(store, resp.info.upload_id) = <<resp.info>>

\* C6: after delete(id) succeeds get(id) fails with NotFound and id is not in
\* list(), until the same bytes are ingested again; delete(id) of an id that
\* is not stored fails with NotFound and changes nothing.
C6_Delete ==
    [][/\ (resp'.op = "delete" /\ resp'.status = "ok") =>
             /\ LoadBuildInfo(store', resp'.id) = <<>>
             /\ resp'.id \notin DOMAIN ListAllUploadedFiles(store')
       /\ \A id \in UploadIds :
             (id \notin StoredIds /\ id \in DOMAIN store') =>
                \E w \in Workers :
                   /\ pc[w] = "save_publish"
                   /\ UploadId(req[w].bytes) = id
       /\ (resp'.op = "delete" /\ resp'.id \notin StoredIds) =>
             /\ resp'.status = "NotFoundError"
             /\ UNCHANGED <<tags, store, latest>>]_vars

\* An upload has just been deleted while another one stays stored.
C6_Witness ==
    /\ resp.op = "delete" /\ resp.status = "ok"
    /\ resp.id \notin StoredIds
    /\ StoredIds # {}

\* C7: after a successful ingest of bundle b, latest_upload_for_bundle(b) is
\* the upload_id of that ingest, also when the ingest re-uploaded bytes that
\* were already stored.
C7_LatestIsLastIngest ==
    UploadOk(resp) =>
       GetLatestUploadId(latest, resp.info.bundle_id) = <<resp.info.upload_id>>

\* C8: when the upload the index records for bundle b is gone, get_latest(b)
\* fails with NotFound; what it returns is never another upload of b nor the
\* BuildInfo of a deleted id.
C8_LatestStale ==
    [][resp'.op = "latest" =>
          LET b == resp'.bundle IN
          /\ (b \in DOMAIN latest /\ latest[b] \notin StoredIds) =>
                resp'.status = "NotFoundError"
          /\ resp'.status = "ok" =>
                /\ b \in DOMAIN latest
                /\ resp'.info.upload_id = latest[b]
                /\ latest[b] \in StoredIds
                /\ <<resp'.info>> = LoadBuildInfo(store, latest[b])]_vars

\* get_latest(b) has just failed for a bundle whose indexed upload is gone
\* while an older upload of the bundle is still stored.
C8_Witness ==
    /\ resp.op = "latest" /\ resp.status = "NotFoundError"
    /\ resp.bundle \in DOMAIN latest
    /\ latest[resp.bundle] \notin StoredIds
    /\ UploadsOfBundle(store, resp.bundle) # {}

\* C9: an ingest that fails leaves the stored records, list(), the
\* BundleLatestIndex and the global tag set as they were before the call and
\* no directory behind; an unsupported extension is refused before the bytes
\* are read or parsed.
C9_FailedIngest ==
    [][/\ \A w \in Workers :
             (pc[w] = "idle" /\ pc'[w] = "up_app") =>
                UNCHANGED <<tags, store, latest, tmp, clock>>
       /\ UploadFailed(resp') =>
             /\ UNCHANGED <<tags, store, latest, tmp>>
             /\ ListAllUploadedFiles(store') = ListAllUploadedFiles(store)
             /\ \A w \in Workers : tmp'[w] = NoTmp
             /\ resp'.status = "InvalidFileTypeError" =>
                   ~resp'.read /\ clock' = clock]_vars

\* An ingest has just failed for an unsupported extension, with uploads
\* stored and tags defined.
C9_Witness ==
    /\ UploadFailed(resp) /\ resp.status = "InvalidFileTypeError"
    /\ StoredIds # {}
    /\ tags # {}

\* C10: at every step of a save, and after a crash in the middle of one, an
\* upload is either not stored or stored complete (artifact and BuildInfo),
\* and the BundleLatestIndex is only ever set to an upload_id by the save
\* that has published that upload's complete record.
C10_NoPartialRecord ==
    [][/\ \A id \in DOMAIN store' : Complete(store'[id])
       /\ \A w \in Workers :
             (pc[w] # "save_index" /\ pc'[w] = "save_index") =>
                /\ req'[w].info.upload_id \in DOMAIN store'
                /\ Complete(store'[req'[w].info.upload_id])
       /\ \A b \in BundleIds :
             GetLatestUploadId(latest', b) # GetLatestUploadId(latest, b) =>
                \E w \in Workers :
                   /\ pc[w] = "save_index"
                   /\ req[w].info.bundle_id = b
                   /\ latest'[b] = req[w].info.upload_id]_vars

\* A worker has just died in the middle of a save whose record is not
\* published, while another upload is stored.
C10_Witness ==
    /\ resp.op = "upload" /\ resp.status = "crashed"
    /\ resp.id \notin StoredIds
    /\ StoredIds # {}

\* C11: an ingest passes the tag check only when every requested tag (trimmed,
\* empty names dropped) is in the global tag set; one that fails the check
\* fails before the file is read, parsed or saved; and no step of an ingest
\* changes the global tag set.
C11_UnknownTag ==
    [][/\ \A w \in Workers :
             (pc[w] = "idle" /\ pc'[w] = "up_app") =>
                Range(req'[w].tags) \subseteq tags
       /\ (resp'.op = "upload" /\ resp'.status = "HTTP400") =>
             /\ ~resp'.read
             /\ resp'.file = <<>>
             /\ UNCHANGED <<tags, store, latest, tmp, clock>>
       /\ tags' # tags => resp'.op \in {"create_tag", "update_tag"}]_vars

\* An ingest has just been refused for its tags, with tags defined and uploads
\* stored.
C11_Witness ==
    /\ resp.op = "upload" /\ resp.status = "HTTP400"
    /\ tags # {}
    /\ StoredIds # {}

IsDuplicateFree(l) == \A i, j \in DOMAIN l : l[i] = l[j] => i = j

\* C12: every stored upload's tag list is duplicate-free, and a newly stored
\* upload lists its tags in the order they were requested.
C12_TagLists ==
    [][\A id \in DOMAIN store' :
          /\ IsDuplicateFree(TagsOf(store', id))
          /\ id \notin StoredIds =>
                \E w \in Workers :
                   /\ pc[w] = "save_publish"
                   /\ TagsOf(store', id) = req[w].info.tags]_vars

\* C13: a create_tag or rename_tag that reports success has introduced a name
\* that was not in the global tag set, so of the concurrent requests that
\* would introduce one name at most one succeeds while the name stays in the
\* set; a create_tag answered Conflict leaves the set unchanged.
C13_UniqueTags ==
    [][/\ (resp'.op = "create_tag" /\ resp'.status = "ok") =>
             /\ resp'.tag \notin tags
             /\ tags' = tags \cup {resp'.tag}
       /\ (resp'.op = "create_tag" /\ resp'.status # "ok") => UNCHANGED tags
       /\ (resp'.op = "update_tag" /\ resp'.status = "ok") =>
             /\ resp'.new \notin tags
             /\ resp'.new \in tags'
             /\ Cardinality(tags') = Cardinality(tags)]_vars

\* A rename that had passed both of its checks has just been refused: its new
\* name was introduced by a concurrent request in the meantime.
C13_Witness ==
    /\ resp.op = "update_tag" /\ resp.status = "HTTP400" /\ ~resp.badNew
    /\ resp.old \in tags
    /\ resp.new \in tags

\* The fields of a BuildInfo that no operation may change once it is stored.
Identity(info) ==
    <<info.created_at, info.bundle_id, info.bundle_version, info.platform>>

\* C14: the created_at (and bundle_id, bundle_version, platform) of a stored
\* upload are those of the ingest that first stored it, and no step (rename,
\* another upload, a re-upload of the same bytes) changes them while the
\* upload stays stored.
C14_CreatedAtImmutable ==
    [][\A id \in DOMAIN store' :
          IF id \in StoredIds
          THEN Identity(store'[id].info[1]) = Identity(store[id].info[1])
          ELSE \E w \in Workers :
                  /\ pc[w] = "save_publish"
                  /\ req[w].info.upload_id = id
                  /\ Identity(store'[id].info[1]) = Identity(req[w].info)]_vars

\* A rename has just rewritten the tag list of an upload that was stored
\* before the last ingest (another upload or a re-upload) took place.
C14_Witness ==
    /\ resp.op = "update_tag" /\ resp.status = "ok"
    /\ \E id \in StoredIds :
          /\ resp.new \in Range(TagsOf(store, id))
          /\ store[id].info[1].created_at < clock

\* C15: a save publishes its record next to the records already stored, and
\* its index update sets the entry of its bundle to its upload_id and leaves
\* every other entry as it was; so of two concurrent ingests of one bundle
\* both records are stored and the entry is the upload_id of the index update
\* that came last.
C15_ConcurrentIngests ==
    [][\A w \in Workers :
          /\ (pc[w] = "save_publish" /\ pc'[w] = "save_index") =>
                /\ DOMAIN store' = StoredIds \cup {req[w].info.upload_id}
                /\ \A id \in StoredIds : store'[id] = store[id]
          /\ (pc[w] = "save_index" /\ pc'[w] = "idle" /\ UploadOk(resp')) =>
                LET info == req[w].info IN
                /\ GetLatestUploadId(latest', info.bundle_id) = <<info.upload_id>>
                /\ \A b \in DOMAIN latest \ {info.bundle_id} :
                      GetLatestUploadId(latest', b) = <<latest[b]>>
                /\ UNCHANGED store]_vars

\* Two ingests of different artifacts of one bundle run concurrently: one has
\* just succeeded and holds the index entry, the other has published its
\* record and is about to update the index.
C15_Witness ==
    /\ UploadOk(resp)
    /\ GetLatestUploadId(latest, resp.info.bundle_id) = <<resp.info.upload_id>>
    /\ \E w \in Workers :
          /\ pc[w] = "save_index"
          /\ req[w].info.bundle_id = resp.info.bundle_id
          /\ req[w].info.upload_id # resp.info.upload_id
          /\ {req[w].info.upload_id, resp.info.upload_id} \subseteq StoredIds

\* C16: however delete(id) and a rename that touches id's tag list interleave,
\* the outcome is that of running them one after the other: a successful
\* delete leaves nothing of id behind, a successful rename re-creates no
\* record and leaves its old name in no stored tag list, and each of the two
\* storage steps commutes with the other one still to come.
C16_DeleteVsRename ==
    [][/\ (resp'.op = "delete" /\ resp'.status = "ok") =>
             /\ resp'.id \notin DOMAIN store'
             /\ LoadBuildInfo(store', resp'.id) = <<>>
             /\ resp'.id \notin DOMAIN ListAllUploadedFiles(store')
             /\ \A w \in Workers :
                   pc[w] \in {"ut_new", "ut_store"} =>
                      RenamedStore(store', req[w].old, req[w].new) =
                         Drop(RenamedStore(store, req[w].old, req[w].new),
                              resp'.id)
       /\ (resp'.op = "update_tag" /\ resp'.status = "ok") =>
             /\ DOMAIN store' = DOMAIN store
             /\ \A id \in DOMAIN store' :
                   resp'.old \notin Range(TagsOf(store', id))
             /\ \A w \in Workers :
                   (pc[w] = "del_store" /\ req[w].id \in StoredIds) =>
                      Drop(store', req[w].id) =
                         RenamedStore(Drop(store, req[w].id),
                                      resp'.old, resp'.new)]_vars

\* A rename has just rewritten the tag list of an upload whose delete has
\* passed its existence check and is about to remove it, while another upload
\* lists the same tag.
C16_Witness ==
    /\ resp.op = "update_tag" /\ resp.status = "ok"
    /\ \E w \in Workers :
          /\ pc[w] = "del_store"
          /\ req[w].id \in StoredIds
          /\ resp.new \in Range(TagsOf(store, req[w].id))
          /\ \E other \in StoredIds \ {req[w].id} :
                resp.new \in Range(TagsOf(store, other))

\* C19: the listing holds exactly one entry for every file, neither hidden
\* nor a .json file, of every listed upload whose BuildInfo loads, whose
\* platform equals the platform filter without regard to case when one is
\* given, and whose tag list contains every (trimmed) name of the tag filter
\* when one is given; an upload whose BuildInfo does not load is left out.
C19_Listing ==
    [][(resp'.op = "list" /\ resp'.status = "ok") =>
          LET uploads == resp'.uploads
              wanted == IF resp'.platform.present
                        THEN resp'.platform.value ELSE <<>>
              names == IF resp'.tags.present
                       THEN {Strip(resp'.tags.list[i]) :
                                i \in DOMAIN resp'.tags.list} \ {<<>>}
                       ELSE {}
              Loads(id) == id \in StoredIds /\ store[id].info # <<>>
              Listed(id) ==
                 /\ Loads(id)
                 /\ wanted # <<>> =>
                       Lower(wanted) = Lower(PlatformValue(store[id].info[1].platform))
                 /\ \A n \in names : \E i \in DOMAIN TagsOf(store, id) :
                       TagsOf(store, id)[i] = n
              Shown(name) == name[1] # "." /\ ~EndsWithExt(name, "json")
              files == UNION {{<<id, name>> : name \in uploads[id]} :
                                 id \in DOMAIN uploads}
          IN /\ \A e \in resp'.result :
                   /\ <<e.upload_id, e.file_name>> \in files
                   /\ Listed(e.upload_id)
                   /\ Shown(e.file_name)
                   /\ e.build_info = store[e.upload_id].info[1]
                   /\ e.tags = TagsOf(store, e.upload_id)
             /\ \A f \in files :
                   (Listed(f[1]) /\ Shown(f[2])) =>
                      \E e \in resp'.result :
                         e.upload_id = f[1] /\ e.file_name = f[2]
             /\ \A e1, e2 \in resp'.result :
                   (e1.upload_id = e2.upload_id /\ e1.file_name = e2.file_name)
                      => e1 = e2]_vars

\* A listing filtered by an upper-case platform and by a tag has just been
\* answered with an entry, while an upload it had listed was deleted before
\* its BuildInfo was loaded.
C19_Witness ==
    /\ resp.op = "list" /\ resp.status = "ok"
    /\ resp.result # {}
    /\ resp.platform.present /\ Lower(resp.platform.value) # resp.platform.value
    /\ resp.tags.present /\ resp.tags.list # <<>>
    /\ \E id \in DOMAIN resp.uploads : id \notin StoredIds

\* C17: a UserError (InvalidFileType, NotFound, Unauthorized) raised for a
\* request whose path starts with /api/ is answered with the status code of
\* the error, never with a success status.
C17_ApiFailures ==
    [][(/\ http # NoHttp
        /\ StartsWithApi(http.route.path)
        /\ resp # NoResp /\ resp.op # "http" /\ resp.status \in UserErrors
        /\ resp'.op = "http") =>
          /\ resp'.status_code = StatusCode(resp.status)
          /\ resp'.status_code >= 400]_vars

\* C18: an upload request whose X-Auth-Token is missing or is not the secret
\* stores nothing and does not succeed, and a listing is answered only to a
\* request with the secret.
C18_UploadAuth ==
    [][/\ (Routed("upload") /\ http.token # Secret) =>
             /\ UNCHANGED <<store, latest>>
             /\ ~UploadOk(resp')
       /\ (resp'.op = "list" /\ resp'.status = "ok") =>
             http.token = Secret]_vars

\* C20: add_head_routes returns, and when it has returned the router holds
\* the routes it held on entry, unchanged, followed by one route for each of
\* them that is a GET route, in their order, with methods {HEAD}, the same
\* handler and include_in_schema false.
C20_HeadRoutes ==
    /\ <>(router.stage = "done")
    /\ [](router.stage = "done" =>
            LET n == Len(router.entry)
                gets == SelectSeq(router.entry, IsGetRoute)
            IN /\ Len(router.routes) = n + Len(gets)
               /\ SubSeq(router.routes, 1, n) = router.entry
               /\ \A k \in 1..Len(gets) :
                     /\ router.routes[n + k].kind = "APIRoute"
                     /\ router.routes[n + k].methods = {"HEAD"}
                     /\ router.routes[n + k].handler = gets[k].handler
                     /\ ~router.routes[n + k].include_in_schema)

\* add_head_routes has returned from a router that held two GET routes and a
\* route of another kind.
C20_Witness ==
    /\ router.stage = "done"
    /\ Len(router.entry) = 3
    /\ Len(router.routes) = 5

====
